---- MODULE Spec2Model ----
(***************************************************************************)
(* A model of webdirlisting (src/main.py): a single-threaded TCP server    *)
(* that parses the first line of the bytes it receives as an HTTP request  *)
(* and answers with a hyperlinked directory listing, a 404 or a 501.       *)
(*                                                                         *)
(* Strings and byte strings are sequences of one-character strings, so a   *)
(* split, a strip, a join or a prefix test is computed as Python computes  *)
(* it.  The platform is POSIX (os.sep = "/").  An exception is modelled as *)
(* a record field exc naming it; "None" means a normal return.             *)
(***************************************************************************)
EXTENDS Integers, Sequences, FiniteSets, TLC

VARIABLES
    pc,         \* where the server is: "init", then a line of the loop of start
    pending,    \* the connections made and not yet accepted, oldest first
    nconn,      \* the number of connections clients have made
    conn,       \* the connection being serviced (0: none)
    open,       \* the per-connection sockets accept returned and close has not closed
    data,       \* the bytes recv returned for the connection being serviced
    request,    \* the HTTPRequest parsed from them
    response,   \* the bytes handle_request returned
    stages,     \* for every connection, the stages it went through
    accepted,   \* the connections in the order accept returned them
    headers,    \* the class attribute HTTPServer.headers
    fault,      \* the exception that ended start, "None" while it runs
    cwd         \* the working directory the server was started in

vars == <<pc, pending, nconn, conn, open, data, request, response,
          stages, accepted, headers, fault, cwd>>

----------------------------------------------------------------------------
(* Bounds of the model.                                                    *)

\* The number of connections clients make in one behaviour.
MaxConns == 2

----------------------------------------------------------------------------
(* Strings.                                                                *)

\* A string literal as a sequence of characters.
Chars(s) == [i \in 1..Len(s) |-> SubSeq(s, i, i)]

\* Python's None, as a value no string equals.
None == <<"<None>">>

\* A byte that is no valid UTF-8 (0xFF); bytes.decode() raises on it.
BadByte == "<0xFF>"

CR == "\r"
LF == "\n"
CRLF == <<CR, LF>>
SP == " "

\* os.sep / os.path.sep on POSIX.
sep == "/"

\* str.startswith(p)
StartsWith(s, p) == Len(p) <= Len(s) /\ SubSeq(s, 1, Len(p)) = p

\* s[n:]
DropFirst(s, n) == SubSeq(s, n + 1, Len(s))

RECURSIVE LStrip(_, _)
\* str.lstrip(c) for a single character c
LStrip(s, c) == IF s # <<>> /\ Head(s) = c THEN LStrip(Tail(s), c) ELSE s

RECURSIVE RStrip(_, _)
\* str.rstrip(c) for a single character c
RStrip(s, c) ==
    IF s # <<>> /\ s[Len(s)] = c THEN RStrip(SubSeq(s, 1, Len(s) - 1), c) ELSE s

\* str.strip(c) for a single character c
Strip(s, c) == RStrip(LStrip(s, c), c)

\* The first position at which sub occurs in s, 0 when it does not.
Find(s, sub) ==
    LET hits == {i \in 1..(Len(s) + 1 - Len(sub)) :
                    SubSeq(s, i, i + Len(sub) - 1) = sub}
    IN IF Len(sub) > Len(s) \/ hits = {} THEN 0
       ELSE CHOOSE i \in hits : \A j \in hits : i <= j

\* The last position at which character c occurs in s, 0 when it does not:
\* str.rfind(c) + 1.
RFind(s, c) ==
    LET hits == {i \in 1..Len(s) : s[i] = c}
    IN IF hits = {} THEN 0 ELSE CHOOSE i \in hits : \A j \in hits : j <= i

RECURSIVE Split(_, _)
\* bytes.split(sub) with an explicit separator: empty pieces are kept.
Split(s, sub) ==
    LET i == Find(s, sub)
    IN IF i = 0 THEN <<s>>
       ELSE <<SubSeq(s, 1, i - 1)>> \o Split(DropFirst(s, i + Len(sub) - 1), sub)

\* str.replace(old, new) for single characters.
Replace(s, old, new) == [i \in 1..Len(s) |-> IF s[i] = old THEN new ELSE s[i]]

\* Whether sub occurs in s.
Contains(s, sub) == Find(s, sub) # 0

RECURSIVE Flatten(_)
\* b''.join(parts)
Flatten(parts) == IF parts = <<>> THEN <<>> ELSE Head(parts) \o Flatten(Tail(parts))

Digit(d) == Chars("0123456789")[d + 1]

RECURSIVE IntToStr(_)
\* '%s' % n for a natural number n
IntToStr(n) == IF n < 10 THEN <<Digit(n)>> ELSE IntToStr(n \div 10) \o <<Digit(n % 10)>>

\* bytes.decode(): UTF-8; raises UnicodeDecodeError on an invalid byte.
Decode(b) ==
    IF \E i \in 1..Len(b) : b[i] = BadByte
    THEN [exc |-> "UnicodeDecodeError", val |-> None]
    ELSE [exc |-> "None", val |-> [i \in 1..Len(b) |-> b[i]]]

\* str.encode(): UTF-8; every character of the model is ASCII, one byte each.
Encode(s) == [i \in 1..Len(s) |-> s[i]]

----------------------------------------------------------------------------
(* The host filesystem the server runs on.  A node is the sequence of the  *)
(* names on the way from "/" to it.  The working directory is /www or /:   *)
(*     /etc/passwd   /www/a.txt   /www/.hidden   /www/.git/                *)
(*     /www/sub/b.txt   /www/sub/deep/                                     *)

\* One directory entry: the node of the directory holding it, its name, its kind.
Entry(dir, name, isdir) == [dir |-> dir, name |-> Chars(name), isdir |-> isdir]

WwwNode == <<Chars("www")>>
SubNode == <<Chars("www"), Chars("sub")>>

\* Every entry of the filesystem, in the order the directories enumerate them.
FsTable ==
    << Entry(<<>>, "etc", TRUE),
       Entry(<<>>, "www", TRUE),
       Entry(<<Chars("etc")>>, "passwd", FALSE),
       Entry(WwwNode, "sub", TRUE),
       Entry(WwwNode, ".hidden", FALSE),
       Entry(WwwNode, "a.txt", FALSE),
       Entry(WwwNode, ".git", TRUE),
       Entry(SubNode, "b.txt", FALSE),
       Entry(SubNode, "deep", TRUE) >>

\* The directories the server is started in.
Cwds == {Chars("/www"), Chars("/")}

\* os.getcwd(): the root directory of the server.
getcwd == cwd

\* Whether the node is a directory ("/" is).
IsDirNode(node) ==
    \/ node = <<>>
    \/ \E i \in 1..Len(FsTable) :
          /\ FsTable[i].dir = SubSeq(node, 1, Len(node) - 1)
          /\ FsTable[i].name = node[Len(node)]
          /\ FsTable[i].isdir

\* Whether the directory node holds an entry of this name.
HasChild(node, name) ==
    \E i \in 1..Len(FsTable) : FsTable[i].dir = node /\ FsTable[i].name = name

RECURSIVE Walk(_, _)
\* The kernel's path walk from a node along the segments of a path: "" and
\* "." stay, ".." goes to the parent ("/" is its own parent), a name goes to
\* that child.  Every step needs the node it starts from to be a directory.
Walk(node, segs) ==
    IF segs = <<>> THEN [ok |-> TRUE, node |-> node]
    ELSE IF ~IsDirNode(node) THEN [ok |-> FALSE, node |-> node]
    ELSE LET s == Head(segs)
         IN IF s = <<>> \/ s = <<".">> THEN Walk(node, Tail(segs))
            ELSE IF s = <<".", ".">>
                 THEN Walk(SubSeq(node, 1, Len(node) - 1), Tail(segs))
            ELSE IF HasChild(node, s) THEN Walk(Append(node, s), Tail(segs))
            ELSE [ok |-> FALSE, node |-> node]

\* The node of the working directory.
CwdNode == Walk(<<>>, Split(getcwd, <<"/">>)).node

\* os.stat(path): the node the path names, if any.  The empty path names none.
Stat(path) ==
    IF path = <<>> THEN [ok |-> FALSE, node |-> <<>>]
    ELSE Walk(IF Head(path) = "/" THEN <<>> ELSE CwdNode, Split(path, <<"/">>))

\* os.path.exists(path)
exists(path) == Stat(path).ok

\* os.path.isdir(path)
isdir(path) == Stat(path).ok /\ IsDirNode(Stat(path).node)

\* The names a directory node holds, in enumeration order.
NamesIn(node) ==
    LET RECURSIVE From(_)
        From(i) == IF i > Len(FsTable) THEN <<>>
                   ELSE IF FsTable[i].dir = node
                        THEN <<FsTable[i].name>> \o From(i + 1)
                        ELSE From(i + 1)
    IN From(1)

\* os.listdir(path)
listdir(path) ==
    IF ~exists(path) THEN [exc |-> "FileNotFoundError", val |-> <<>>]
    ELSE IF ~isdir(path) THEN [exc |-> "NotADirectoryError", val |-> <<>>]
    ELSE [exc |-> "None", val |-> NamesIn(Stat(path).node)]

\* os.path.join(a, b) (posixpath)
join(a, b) ==
    IF StartsWith(b, <<sep>>) THEN b
    ELSE IF a = <<>> \/ a[Len(a)] = sep THEN a \o b
    ELSE a \o <<sep>> \o b

\* os.path.dirname(p) (posixpath): the text before the last separator, with
\* its trailing separators removed unless it holds nothing else.
dirname(p) ==
    LET head == SubSeq(p, 1, RFind(p, sep))
    IN IF head # <<>> /\ (\E i \in 1..Len(head) : head[i] # sep)
       THEN RStrip(head, sep) ELSE head

----------------------------------------------------------------------------
(* class DirListing                                                        *)

\* DirListing.__url_path_to_dir_path
url_path_to_dir_path(url_path) ==
    LET up == IF url_path # <<>> THEN url_path \o <<sep>> ELSE url_path
    IN dirname(join(getcwd, up))

\* DirListing.__dir_path_to_url_path
dir_path_to_url_path(dir_path) ==
    LET prefix == getcwd
        url_path == IF StartsWith(dir_path, prefix)
                    THEN Replace(DropFirst(dir_path, Len(prefix)), sep, "/")
                    ELSE <<>>
    IN IF url_path = <<>> THEN <<"/">> ELSE url_path

\* DirListing.__init__: raises FileNotFoundError when the path does not exist.
DirListing(url_path) ==
    LET dir_path == url_path_to_dir_path(url_path)
        is_root_dir == (url_path = <<>>)
    IN IF ~exists(dir_path)
       THEN [exc |-> "FileNotFoundError", dir_path |-> dir_path,
             is_root_dir |-> is_root_dir, parent_dir |-> <<>>]
       ELSE [exc |-> "None", dir_path |-> dir_path, is_root_dir |-> is_root_dir,
             parent_dir |-> IF ~is_root_dir THEN dirname(dir_path) ELSE <<>>]

\* The parent-directory line of a listing for the given href.
ParentLink(url) ==
    Chars("<a href=\"") \o url \o Chars("\">[parent directory]</a><br>")

\* DirLine without the "/" after the name of the directory.
DirLine_noslash(url, f) ==
    Chars("<a href=\"") \o url \o Chars("\">") \o f \o Chars("</a>") \o Chars("<br>")

\* The line of a directory entry: a hyperlink around the name and a "/".
DirLine(url, f) ==
    Chars("<a href=\"") \o url \o Chars("\">") \o f \o Chars("/</a>") \o Chars("<br>")

\* The line of a non-directory entry: the name as it is.
FileLine(f) == f \o Chars("<br>")

\* IsHidden with the test for the leading dot lost: nothing is left out.
IsHidden_never(f) == FALSE

\* Whether an entry is left out of the listing: f.startswith('.')
IsHidden(f) == StartsWith(f, <<".">>)

\* What one entry adds to the listing (the body of the loop over the files).
EntryHtml(dir_path, f) ==
    IF IsHidden(f) THEN <<>>
    ELSE IF isdir(join(dir_path, f))
         THEN DirLine(dir_path_to_url_path(join(dir_path, f)), f)
         ELSE FileLine(f)

RECURSIVE EntriesHtml(_, _)
EntriesHtml(dir_path, files) ==
    IF files = <<>> THEN <<>>
    ELSE EntryHtml(dir_path, Head(files)) \o EntriesHtml(dir_path, Tail(files))

\* The parent link of a listing, nothing for the root directory.
ParentHtml(dl) ==
    IF ~dl.is_root_dir THEN ParentLink(dir_path_to_url_path(dl.parent_dir)) ELSE <<>>

\* DirListing.get_hyperlinked_dir_listing: raises what os.listdir raises.
get_hyperlinked_dir_listing(dl) ==
    LET files == listdir(dl.dir_path)
    IN IF files.exc # "None" THEN [exc |-> files.exc, val |-> <<>>]
       ELSE [exc |-> "None",
             val |-> Chars("<html><body>") \o ParentHtml(dl)
                     \o EntriesHtml(dl.dir_path, files.val)
                     \o Chars("</body></html>")]

----------------------------------------------------------------------------
(* class HTTPRequest                                                       *)

\* HTTPRequest with the last line of the data read as the request line.
HTTPRequest_lastline(d) ==
    LET lines == Split(d, CRLF)
        request_line == lines[Len(lines)]
        words == Split(request_line, <<SP>>)
        method == Decode(words[1])
        uri == IF Len(words) > 1 THEN Decode(words[2]) ELSE [exc |-> "None", val |-> None]
        http_version == IF Len(words) > 2 THEN words[3] ELSE Chars("1.1")
    IN IF method.exc # "None"
       THEN [exc |-> method.exc, method |-> None, uri |-> None, http_version |-> None]
       ELSE IF uri.exc # "None"
       THEN [exc |-> uri.exc, method |-> method.val, uri |-> None, http_version |-> None]
       ELSE [exc |-> "None", method |-> method.val, uri |-> uri.val,
             http_version |-> http_version]

\* HTTPRequest.__init__ and parse: the method, the URI (None when the request
\* line has one word) and the version of the first line of the data.  The
\* method is decoded first, then the URI; either decode may raise.
HTTPRequest(d) ==
    LET lines == Split(d, CRLF)
        request_line == lines[1]
        words == Split(request_line, <<SP>>)
        method == Decode(words[1])
        uri == IF Len(words) > 1 THEN Decode(words[2]) ELSE [exc |-> "None", val |-> None]
        http_version == IF Len(words) > 2 THEN words[3] ELSE Chars("1.1")
    IN IF method.exc # "None"
       THEN [exc |-> method.exc, method |-> None, uri |-> None, http_version |-> None]
       ELSE IF uri.exc # "None"
       THEN [exc |-> uri.exc, method |-> method.val, uri |-> None, http_version |-> None]
       ELSE [exc |-> "None", method |-> method.val, uri |-> uri.val,
             http_version |-> http_version]

\* The request before any is parsed.
NoRequest == [exc |-> "None", method |-> None, uri |-> None, http_version |-> None]

----------------------------------------------------------------------------
(* class HTTPServer                                                        *)

\* HTTPServer.headers as the class defines it: a dict, as its items in order.
BaseHeaders ==
    << <<Chars("Server"), Chars("CrudeServer")>>,
       <<Chars("Content-Type"), Chars("text/html")>> >>

\* HTTPServer.status_codes
status_codes ==
    [c \in {200, 404, 501} |->
        CASE c = 200 -> Chars("OK")
          [] c = 404 -> Chars("Not Found")
          [] c = 501 -> Chars("Not Implemented")]

\* response_line without the CR LF that ends the status line.
response_line_nocrlf(status_code) ==
    Encode(Chars("HTTP/1.1 ") \o IntToStr(status_code) \o <<" ">>
           \o status_codes[status_code])

\* HTTPServer.response_line
response_line(status_code) ==
    Encode(Chars("HTTP/1.1 ") \o IntToStr(status_code) \o <<" ">>
           \o status_codes[status_code] \o CRLF)

RECURSIVE DictUpdate(_, _)
\* dict.update(extra): the value of a key the dict holds is replaced in place,
\* a new key is added at the end.
DictUpdate(d, extra) ==
    IF extra = <<>> THEN d
    ELSE LET kv == Head(extra)
             d1 == IF \E i \in 1..Len(d) : d[i][1] = kv[1]
                   THEN [i \in 1..Len(d) |-> IF d[i][1] = kv[1] THEN kv ELSE d[i]]
                   ELSE Append(d, kv)
         IN DictUpdate(d1, Tail(extra))

RECURSIVE FormatHeaders(_)
FormatHeaders(d) ==
    IF d = <<>> THEN <<>>
    ELSE Head(d)[1] \o Chars(": ") \o Head(d)[2] \o CRLF \o FormatHeaders(Tail(d))

\* response_headers with the extra headers added after the class's headers.
response_headers_append(hdrs, extra_headers) ==
    Encode(FormatHeaders(hdrs \o extra_headers))

\* HTTPServer.response_headers, on a copy of the class's headers.
response_headers(hdrs, extra_headers) ==
    LET headers_copy == IF extra_headers # <<>> THEN DictUpdate(hdrs, extra_headers)
                        ELSE hdrs
    IN Encode(FormatHeaders(headers_copy))

Body404 == Chars("<h1>404 Not Found</h1>")
Body501 == Chars("<h1>501 Not Implemented</h1>")

\* handle_GET without its except clause: FileNotFoundError leaves the handler.
handle_GET_uncaught(hdrs, req) ==
    IF req.uri = None THEN [exc |-> "AttributeError", val |-> <<>>]
    ELSE
    LET url_path == Strip(req.uri, "/")
        dl == DirListing(url_path)
        listing == get_hyperlinked_dir_listing(dl)
    IN IF dl.exc # "None" THEN [exc |-> dl.exc, val |-> <<>>]
       ELSE IF listing.exc # "None" THEN [exc |-> listing.exc, val |-> <<>>]
       ELSE [exc |-> "None",
             val |-> Flatten(<<response_line(200),
                               response_headers(hdrs,
                                   << <<Chars("Content-Type"), Chars("text/html")>> >>),
                               CRLF, Encode(listing.val)>>)]

\* HTTPServer.handle_GET.  A request without URI has uri = None, and
\* None.strip raises AttributeError; a FileNotFoundError of the listing is
\* answered 404; any other exception of the listing leaves the handler.
handle_GET(hdrs, req) ==
    IF req.uri = None THEN [exc |-> "AttributeError", val |-> <<>>]
    ELSE
    LET url_path == Strip(req.uri, "/")
        dl == DirListing(url_path)
        listing == get_hyperlinked_dir_listing(dl)
        notfound == Flatten(<<response_line(404), response_headers(hdrs, <<>>),
                              CRLF, Body404>>)
    IN IF dl.exc = "FileNotFoundError" THEN [exc |-> "None", val |-> notfound]
       ELSE IF listing.exc = "FileNotFoundError" THEN [exc |-> "None", val |-> notfound]
       ELSE IF listing.exc # "None" THEN [exc |-> listing.exc, val |-> <<>>]
       ELSE [exc |-> "None",
             val |-> Flatten(<<response_line(200),
                               response_headers(hdrs,
                                   << <<Chars("Content-Type"), Chars("text/html")>> >>),
                               CRLF, Encode(listing.val)>>)]

\* HTTPServer.HTTP_501_handler
HTTP_501_handler(hdrs, req) ==
    [exc |-> "None",
     val |-> Flatten(<<response_line(501), response_headers(hdrs, <<>>),
                       CRLF, Body501>>)]

\* The names getattr finds on an HTTPServer (those of object aside, none of
\* which begins with "handle_").
ServerAttributes ==
    { Chars("host"), Chars("port"), Chars("start"), Chars("handle_request"),
      Chars("headers"), Chars("status_codes"), Chars("response_line"),
      Chars("response_headers"), Chars("handle_GET"), Chars("HTTP_501_handler") }

\* The handler handle_request selects: getattr(self, 'handle_%s' % method),
\* HTTP_501_handler when there is no such attribute.
SelectHandler(method) ==
    LET name == Chars("handle_") \o method
    IN IF name \in ServerAttributes THEN name ELSE Chars("HTTP_501_handler")

\* handler(request), lines 119-120.  The method "request" selects
\* handle_request itself, which is then given an HTTPRequest for bytes:
\* HTTPRequest.parse calls data.split on it and raises AttributeError.
CallHandler(hdrs, req) ==
    LET handler == SelectHandler(req.method)
    IN IF handler = Chars("handle_GET") THEN handle_GET(hdrs, req)
       ELSE IF handler = Chars("handle_request")
            THEN [exc |-> "AttributeError", val |-> <<>>]
       ELSE HTTP_501_handler(hdrs, req)

\* HTTPServer.handle_request
handle_request(hdrs, d) ==
    LET req == HTTPRequest(d)
    IN IF req.exc # "None" THEN [exc |-> req.exc, val |-> <<>>]
       ELSE CallHandler(hdrs, req)

----------------------------------------------------------------------------
(* The bytes clients send.                                                 *)

\* Method tokens: the supported one, others, the empty one, one that names
\* another attribute of the server, and one that is no UTF-8.
Methods ==
    { Chars("GET"), Chars("get"), Chars("POST"), <<>>, Chars("request"), <<BadByte>> }

\* URI tokens.
Uris ==
    { Chars("/"), Chars("/sub"), Chars("/sub/"), Chars("//sub"), Chars("/sub/deep"),
      Chars("/.git"), Chars("/a.txt"), Chars("/missing"), Chars("/sub/missing"),
      Chars("/."), Chars("/sub/."), Chars("/.."), Chars("/sub/.."),
      Chars("/sub/deep/../.."), Chars("/../etc"), Chars("/../www/sub"),
      Chars("/a.txt/.."), <<>>, <<"/", BadByte>> }

\* Request lines: METHOD [SP URI [SP VERSION]].  Every URI is sent with GET;
\* the other methods are sent alone and with the URI "/".
RequestLines ==
    LET withUri == {<<m, u>> \in Methods \X Uris : m = Chars("GET") \/ u = Chars("/")}
    IN Methods
       \cup {mu[1] \o <<SP>> \o mu[2] : mu \in withUri}
       \cup {mu[1] \o <<SP>> \o mu[2] \o <<SP>> \o Chars("HTTP/1.1") : mu \in withUri}

\* What follows the request line: nothing, the end of the header block, a
\* header.
Tails ==
    { <<>>, CRLF \o CRLF, CRLF \o Chars("Host: h") \o CRLF \o CRLF }

\* The byte strings a client sends on a connection.
Requests == {l \o t : l \in RequestLines, t \in Tails}

----------------------------------------------------------------------------
(* class TCPServer: start, and the clients that connect to it.             *)

\* conn.recv(1024): at most this many bytes are read.
RecvSize == 1024

\* s.listen(5): the accept queue.
Backlog == 5

ConnIds == 1..MaxConns

Init ==
    /\ pc = "init"
    /\ pending = <<>>
    /\ nconn = 0
    /\ conn = 0
    /\ open = {}
    /\ data = <<>>
    /\ request = NoRequest
    /\ response = <<>>
    /\ stages = [c \in ConnIds |-> <<>>]
    /\ accepted = <<>>
    /\ headers = BaseHeaders
    /\ fault = "None"
    /\ cwd \in Cwds

\* The stage a connection reaches is added to its history.
Reached(c, stage) == stages' = [stages EXCEPT ![c] = Append(@, stage)]

\* An exception leaves start: nothing catches it, the loop is over.
Raise(exc) == pc' = "terminated" /\ fault' = exc

\* start, lines 74-79: the listening socket is made, bound and listening.
Listen ==
    /\ pc = "init"
    /\ pc' = "accept"
    /\ UNCHANGED <<pending, nconn, conn, open, data, request, response,
                   stages, accepted, headers, cwd, fault>>

\* A client connects; the connection waits in the accept queue.
Connect ==
    /\ pc \notin {"init", "terminated"}
    /\ nconn < MaxConns
    /\ Len(pending) < Backlog
    /\ nconn' = nconn + 1
    /\ pending' = Append(pending, nconn + 1)
    /\ UNCHANGED <<pc, conn, open, data, request, response,
                   stages, accepted, headers, cwd, fault>>

\* conn, addr = s.accept(): the oldest waiting connection.
Accept ==
    /\ pc = "accept"
    /\ pending # <<>>
    /\ conn' = Head(pending)
    /\ pending' = Tail(pending)
    /\ open' = open \cup {Head(pending)}
    /\ accepted' = Append(accepted, Head(pending))
    /\ Reached(Head(pending), "Accepted")
    /\ pc' = "recv"
    /\ UNCHANGED <<nconn, data, request, response, headers, cwd, fault>>

\* data = conn.recv(1024): the first bytes of what the client sent.
Recv ==
    /\ pc = "recv"
    /\ \E d \in Requests :
          data' = SubSeq(d, 1, IF Len(d) < RecvSize THEN Len(d) ELSE RecvSize)
    /\ Reached(conn, "Read")
    /\ pc' = "parse"
    /\ UNCHANGED <<pending, nconn, conn, open, request, response,
                   accepted, headers, cwd, fault>>

\* conn.recv raises: the client reset the connection.
RecvFail ==
    /\ pc = "recv"
    /\ Raise("ConnectionResetError")
    /\ UNCHANGED <<pending, nconn, conn, open, data, request, response,
                   stages, accepted, headers, cwd>>

\* handle_request, line 112: request = HTTPRequest(data).
Parse ==
    /\ pc = "parse"
    /\ LET r == HTTPRequest(data)
       IN IF r.exc # "None"
          THEN /\ Raise(r.exc)
               /\ UNCHANGED <<request, stages>>
          ELSE /\ request' = r
               /\ Reached(conn, "Parsed")
               /\ pc' = "dispatch"
               /\ UNCHANGED fault
    /\ UNCHANGED <<pending, nconn, conn, open, data, response, accepted, headers, cwd>>

\* handle_request, lines 114-120: the handler is selected and called.  The
\* handlers format a copy of HTTPServer.headers, which stays as it is.
Dispatch ==
    /\ pc = "dispatch"
    /\ LET r == CallHandler(headers, request)
       IN IF r.exc # "None"
          THEN /\ Raise(r.exc)
               /\ UNCHANGED response
          ELSE /\ response' = r.val
               /\ pc' = "send"
               /\ UNCHANGED fault
    /\ Reached(conn, "Dispatched")
    /\ UNCHANGED <<pending, nconn, conn, open, data, request, accepted, headers, cwd>>

\* conn.sendall(response)
Send ==
    /\ pc = "send"
    /\ Reached(conn, "Responded")
    /\ pc' = "close"
    /\ UNCHANGED <<pending, nconn, conn, open, data, request, response,
                   accepted, headers, cwd, fault>>

\* conn.sendall raises: the client is gone.
SendFail ==
    /\ pc = "send"
    /\ Raise("BrokenPipeError")
    /\ UNCHANGED <<pending, nconn, conn, open, data, request, response,
                   stages, accepted, headers, cwd>>

\* The end of the loop body with conn.close() forgotten.
Close_forgotten ==
    /\ pc = "close"
    /\ conn' = 0
    /\ data' = <<>>
    /\ request' = NoRequest
    /\ response' = <<>>
    /\ pc' = "accept"
    /\ UNCHANGED <<pending, nconn, open, stages, accepted, headers, cwd, fault>>

\* conn.close(), and back to accept.  The loop's locals are dead from here
\* (the next iteration assigns them before it reads them): they are cleared.
Close ==
    /\ pc = "close"
    /\ open' = open \ {conn}
    /\ Reached(conn, "Closed")
    /\ conn' = 0
    /\ data' = <<>>
    /\ request' = NoRequest
    /\ response' = <<>>
    /\ pc' = "accept"
    /\ UNCHANGED <<pending, nconn, accepted, headers, cwd, fault>>

Next ==
    \/ Listen
    \/ Connect
    \/ Accept
    \/ Recv
    \/ RecvFail
    \/ Parse
    \/ Dispatch
    \/ Send
    \/ SendFail
    \/ Close

Spec == Init /\ [][Next]_vars

----------------------------------------------------------------------------
(* What a client reads in a response, and what the claims speak of.        *)

GET == Chars("GET")

\* The status code of a response: the second word of its first line.
StatusOf(resp) ==
    LET words == Split(Split(resp, CRLF)[1], <<SP>>)
    IN IF Len(words) >= 2 THEN words[2] ELSE <<>>

\* The body of a response: what follows the first blank line.
BodyOf(resp) ==
    LET i == Find(resp, CRLF \o CRLF)
    IN IF i = 0 THEN <<>> ELSE DropFirst(resp, i + 3)

\* The handler has been called for the request of the connection in service.
Answered == conn # 0 /\ Len(stages[conn]) >= 4

\* The handler has returned a response for it.
Responded == Answered /\ response # <<>>

\* The request line of the received bytes has a single word.
NoUriToken == Len(Split(Split(data, CRLF)[1], <<SP>>)) = 1

\* The exceptions of the transport: recv and sendall.
TransportFaults == {"ConnectionResetError", "BrokenPipeError"}

\* The directory path handle_GET resolves the parsed URI to.
ResolvedPath == url_path_to_dir_path(Strip(request.uri, "/"))

\* A GET request with a URI has been handled.
AnsweredGet == Answered /\ request.method = GET /\ request.uri # None

----------------------------------------------------------------------------
(* C1.  Every byte string received gets a complete HTTP response: the      *)
(* server is never ended by an exception of handle_request.                *)
(* Refuted: "GET" alone raises AttributeError (uri is None), as do the     *)
(* method "request", a token that is no UTF-8 and the URI of a file.       *)
C1_EveryRequestAnswered ==
    /\ fault \in {"None"} \cup TransportFaults
    /\ Answered => Responded

(* C2.  Every request whose method token is not exactly "GET" is answered  *)
(* 501 with the body <h1>501 Not Implemented</h1>.                         *)
(* Refuted: the method "request" selects handle_request itself, which      *)
(* raises AttributeError.                                                  *)
C2_OtherMethods501 ==
    (Answered /\ request.method # GET) =>
        /\ Responded
        /\ StatusOf(response) = Chars("501")
        /\ BodyOf(response) = Body501

(* C3.  A request line "GET" without URI token is parsed with an empty URI *)
(* and answered as GET of the root: 200, the root listing, no parent link. *)
(* Refuted: the URI stays None and handle_GET raises AttributeError.       *)
C3_GetWithoutUriIsRoot ==
    (Answered /\ request.method = GET /\ NoUriToken) =>
        /\ request.uri = <<>>
        /\ Responded
        /\ StatusOf(response) = Chars("200")
        /\ BodyOf(response) = get_hyperlinked_dir_listing(DirListing(<<>>)).val
        /\ ~Contains(BodyOf(response), Chars("[parent directory]"))

(* C4.  Every GET whose URI, stripped of "/" at both ends, resolves to a   *)
(* path that does not exist is answered 404 with the body                  *)
(* <h1>404 Not Found</h1>.                                                 *)
C4_MissingPath404 ==
    (AnsweredGet /\ ~Stat(ResolvedPath).ok) =>
        /\ Responded
        /\ StatusOf(response) = Chars("404")
        /\ BodyOf(response) = Body404

\* C4's case: GET /sub/missing has been answered 404.
C4_Witness ==
    /\ pc = "send"
    /\ request.method = GET
    /\ request.uri = Chars("/sub/missing")
    /\ ~Stat(ResolvedPath).ok
    /\ StatusOf(response) = Chars("404")

----------------------------------------------------------------------------
(* A listing as a client reads it, and the filesystem as it is.            *)

EndsWith(s, t) == Len(t) <= Len(s) /\ SubSeq(s, Len(s) - Len(t) + 1, Len(s)) = t

\* The lines of a listing: what stands between <html><body> and
\* </body></html>, cut at every <br>.
EntryLines(body) ==
    LET open_ == Chars("<html><body>")
        close_ == Chars("</body></html>")
        inner == SubSeq(body, Len(open_) + 1, Len(body) - Len(close_))
        pieces == Split(inner, Chars("<br>"))
    IN SubSeq(pieces, 1, Len(pieces) - 1)

\* A line that is one hyperlink.
IsAnchor(l) == StartsWith(l, Chars("<a href=\"")) /\ EndsWith(l, Chars("</a>"))

\* The href of a hyperlink line.
AnchorHref(l) ==
    LET rest == DropFirst(l, Len(Chars("<a href=\"")))
    IN SubSeq(rest, 1, Find(rest, Chars("\">")) - 1)

\* The text of a hyperlink line.
AnchorText(l) ==
    LET rest == DropFirst(l, Find(l, Chars("\">")) + 1)
    IN SubSeq(rest, 1, Len(rest) - Len(Chars("</a>")))

IsParentLine(l) == IsAnchor(l) /\ AnchorText(l) = Chars("[parent directory]")

\* The parent-directory links of a listing.
ParentLines(body) == SelectSeq(EntryLines(body), IsParentLine)

\* The listing has a hyperlink whose text is the name, or the name and "/".
HasLinkFor(body, f) ==
    \E i \in 1..Len(EntryLines(body)) :
        LET l == EntryLines(body)[i]
        IN IsAnchor(l) /\ AnchorText(l) \in {f, f \o <<"/">>}

\* The listing has the name as a line of plain text.
HasTextFor(body, f) ==
    \E i \in 1..Len(EntryLines(body)) : EntryLines(body)[i] = f

\* The entries of a directory node.
ChildrenOf(node) == {FsTable[i] : i \in {j \in 1..Len(FsTable) : FsTable[j].dir = node}}

\* A name that does not begin with a dot.
Visible(f) == f = <<>> \/ Head(f) # "."

\* The node is the root directory or below it.
UnderRoot(node) ==
    Len(node) >= Len(CwdNode) /\ SubSeq(node, 1, Len(CwdNode)) = CwdNode

RECURSIVE NamesToUrl(_)
NamesToUrl(names) ==
    IF names = <<>> THEN <<>> ELSE <<"/">> \o Head(names) \o NamesToUrl(Tail(names))

\* The URL of a node under the root: "/" for the root itself.
NodeUrl(node) ==
    IF node = CwdNode THEN <<"/">> ELSE NamesToUrl(DropFirst(node, Len(CwdNode)))

\* The node of the directory a handled GET lists.
ListedNode == Stat(ResolvedPath).node

\* A GET of a directory that exists under the root has been handled.
AnsweredGetOfDir ==
    /\ AnsweredGet
    /\ Stat(ResolvedPath).ok
    /\ IsDirNode(ListedNode)
    /\ UnderRoot(ListedNode)

----------------------------------------------------------------------------
(* C5, as claimed.  GET of a directory under the root is answered 200 with *)
(* a hyperlink for every visible child and nothing for a hidden child.     *)
(* Refuted: a visible child that is no directory is plain text, no link.   *)
C5_Original_LinkForEveryVisibleChild ==
    AnsweredGetOfDir =>
        /\ Responded
        /\ StatusOf(response) = Chars("200")
        /\ \A e \in ChildrenOf(ListedNode) :
              IF Visible(e.name)
              THEN HasLinkFor(BodyOf(response), e.name)
              ELSE /\ ~HasLinkFor(BodyOf(response), e.name)
                   /\ ~HasTextFor(BodyOf(response), e.name)

(* C5, amended.  GET of a directory under the root is answered 200 with a  *)
(* hyperlink for every visible child that is a directory, the plain name   *)
(* (and no hyperlink) for every visible child that is not, and neither a   *)
(* hyperlink nor a line of text for a hidden child.                        *)
C5_VisibleChildrenListed ==
    AnsweredGetOfDir =>
        /\ Responded
        /\ StatusOf(response) = Chars("200")
        /\ \A e \in ChildrenOf(ListedNode) :
              IF Visible(e.name)
              THEN IF e.isdir
                   THEN HasLinkFor(BodyOf(response), e.name)
                   ELSE /\ HasTextFor(BodyOf(response), e.name)
                        /\ ~HasLinkFor(BodyOf(response), e.name)
              ELSE /\ ~HasLinkFor(BodyOf(response), e.name)
                   /\ ~HasTextFor(BodyOf(response), e.name)

\* C5's case: the root, with a visible directory, a visible file, a hidden
\* file and a hidden directory, has been listed.
C5_Witness ==
    /\ pc = "send"
    /\ AnsweredGetOfDir
    /\ ListedNode = CwdNode
    /\ \E e \in ChildrenOf(ListedNode) : Visible(e.name) /\ e.isdir
    /\ \E e \in ChildrenOf(ListedNode) : Visible(e.name) /\ ~e.isdir
    /\ \E e \in ChildrenOf(ListedNode) : ~Visible(e.name) /\ e.isdir
    /\ \E e \in ChildrenOf(ListedNode) : ~Visible(e.name) /\ ~e.isdir
    /\ StatusOf(response) = Chars("200")

(* C6.  A GET whose stripped URL path is empty has no parent-directory     *)
(* link; a GET with a non-empty one that succeeds has exactly one, and its *)
(* href is the URL of the true parent of the directory listed (here: when  *)
(* that directory lies below the root, so that its parent has a URL).      *)
(* Refuted: the path is not normalised, so GET /sub/. lists /www/sub with  *)
(* the parent link /sub, the directory itself.                             *)
C6_ParentLinkIsTrueParent ==
    (AnsweredGet /\ Responded /\ StatusOf(response) = Chars("200")) =>
        LET links == ParentLines(BodyOf(response))
        IN IF Strip(request.uri, "/") = <<>> THEN links = <<>>
           ELSE /\ Len(links) = 1
                /\ (UnderRoot(ListedNode) /\ ListedNode # CwdNode) =>
                       AnchorHref(links[1])
                           = NodeUrl(SubSeq(ListedNode, 1, Len(ListedNode) - 1))

(* C7.  The directory a GET checks and enumerates lies within the root: a  *)
(* URI whose resolved path exists outside the root is answered 404.        *)
(* Refuted: GET /.. is answered 200 with the listing of the root's parent. *)
C7_NothingOutsideRootListed ==
    (AnsweredGet /\ Stat(ResolvedPath).ok /\ ~UnderRoot(ListedNode)) =>
        /\ Responded
        /\ StatusOf(response) = Chars("404")

----------------------------------------------------------------------------
(* The connections.                                                        *)

\* The stages of a connection, in order.
AllStages == <<"Accepted", "Read", "Parsed", "Dispatched", "Responded", "Closed">>

\* The connection is the one the loop is servicing.
InService(c) == conn = c /\ pc \in {"recv", "parse", "dispatch", "send", "close"}

(* C8.  A failure while one connection is serviced ends that connection    *)
(* only: the accept loop of start is never left.                           *)
(* Refuted: start catches nothing, so an exception of recv, of             *)
(* handle_request or of sendall leaves the loop and ends the server.       *)
C8_AcceptLoopSurvivesFailure == pc # "terminated"

(* C9.  Every accepted connection goes through Accepted, Read, Parsed,     *)
(* Dispatched, Responded, Closed in this order, with one receive and one   *)
(* response write, and is closed by the server whatever the request was    *)
(* (stated for the connections whose recv and sendall did not fail).       *)
(* Refuted: a request on which handle_request raises is never answered and *)
(* its connection never closed (the faults of C1, uncaught as in C8).      *)
C9_EveryConnectionClosedInOrder ==
    \A c \in ConnIds :
        /\ Len(stages[c]) <= Len(AllStages)
        /\ stages[c] = SubSeq(AllStages, 1, Len(stages[c]))
        /\ (stages[c] # <<>> /\ ~InService(c) /\ fault \notin TransportFaults) =>
               (stages[c] = AllStages /\ c \notin open)

(* C10.  At most one per-connection socket is open in any state: when a    *)
(* connection is accepted every connection accepted before it has been     *)
(* closed, so connections are serviced one at a time in acceptance order.  *)
C10_OneConnectionAtATime ==
    /\ Cardinality(open) <= 1
    /\ \A i \in 1..Len(accepted) :
          i < Len(accepted) =>
              /\ accepted[i] \notin open
              /\ stages[accepted[i]] = AllStages
    /\ \A c \in ConnIds :
          Len(stages[c]) >= 2 => accepted[Len(accepted)] = c \/ stages[c] = AllStages

\* C10's case: a second connection has been accepted after the first was
\* serviced and closed.
C10_Witness ==
    /\ Len(accepted) = 2
    /\ pc = "recv"
    /\ open = {accepted[2]}
    /\ stages[accepted[1]] = AllStages

----------------------------------------------------------------------------
(* URL paths and directory paths.                                          *)

RECURSIVE Collapse(_, _)
\* The segments of a path with "" and "." dropped and every ".." taking back
\* the segment before it (a ".." with nothing before it stays).
Collapse(done, segs) ==
    IF segs = <<>> THEN done
    ELSE LET g == Head(segs)
         IN IF g = <<>> \/ g = <<".">> THEN Collapse(done, Tail(segs))
            ELSE IF g = <<".", ".">> /\ done # <<>> /\ done[Len(done)] # <<".", ".">>
                 THEN Collapse(SubSeq(done, 1, Len(done) - 1), Tail(segs))
            ELSE Collapse(Append(done, g), Tail(segs))

\* The normalised URL of a URL path: "/" and its collapsed segments.
NormUrl(p) ==
    LET segs == Collapse(<<>>, Split(p, <<"/">>))
    IN IF segs = <<>> THEN <<"/">> ELSE NamesToUrl(segs)

\* unresolve(resolve(p))
RoundTrip(p) == dir_path_to_url_path(url_path_to_dir_path(p))

(* C11.  For every URL path p that resolves under the root,                *)
(* unresolve(resolve(p)) is the normalised form of p ("." and ".."         *)
(* collapsed), and the round trip applied again yields the same URL.       *)
(* Refuted: the path is joined to the root, never normalised: "sub/."      *)
(* comes back as "/sub/.", not "/sub" (and, started in "/", the server     *)
(* turns "www" into "www", without the leading "/").                       *)
C11_RoundTripNormalises ==
    (AnsweredGet /\ Stat(ResolvedPath).ok /\ UnderRoot(ListedNode)) =>
        LET p == Strip(request.uri, "/")
            u == RoundTrip(p)
        IN /\ u = NormUrl(p)
           /\ RoundTrip(Strip(u, "/")) = u

----------------------------------------------------------------------------
\* The body is a rendered listing: an HTML document of entry lines.
IsListing(body) ==
    /\ StartsWith(body, Chars("<html><body>"))
    /\ EndsWith(body, Chars("</body></html>"))

(* C12.  For every GET, resolution succeeds exactly when the resolved path *)
(* exists, and whenever it succeeds, for a directory or for another entry, *)
(* the response is 200 with the rendered listing as body.                  *)
(* Refuted: for a path that is a file os.listdir raises                    *)
(* NotADirectoryError, which handle_GET does not catch: no response.       *)
C12_ExistingPath200 ==
    AnsweredGet =>
        /\ (DirListing(Strip(request.uri, "/")).exc = "None") <=> Stat(ResolvedPath).ok
        /\ Stat(ResolvedPath).ok =>
              /\ Responded
              /\ StatusOf(response) = Chars("200")
              /\ IsListing(BodyOf(response))

----------------------------------------------------------------------------
\* The directory paths a handled GET turns into hrefs: the parent directory
\* (unless the URL path is empty) and every visible subdirectory.
HrefPaths ==
    LET dl == DirListing(Strip(request.uri, "/"))
        names == listdir(dl.dir_path).val
    IN (IF dl.is_root_dir THEN {} ELSE {dl.parent_dir})
       \cup {join(dl.dir_path, names[i]) :
                i \in {j \in 1..Len(names) :
                          Visible(names[j]) /\ isdir(join(dl.dir_path, names[j]))}}

\* The hyperlink lines of a listing.
AnchorLines(body) == SelectSeq(EntryLines(body), IsAnchor)

(* C13.  The URL of a directory path is the path with the root prefix      *)
(* removed and the separators rewritten to "/", and "/" when the path is   *)
(* the root or does not begin with the root prefix; consequently every     *)
(* href of a listing (parent link, subdirectory links) begins with "/".    *)
(* Refuted: started in the directory "/", the server removes the prefix    *)
(* "/" itself, and GET / links its subdirectories as "etc" and "www".      *)
C13_HrefsBeginWithSlash ==
    (AnsweredGet /\ Responded /\ StatusOf(response) = Chars("200")) =>
        /\ \A x \in HrefPaths :
              dir_path_to_url_path(x) =
                  IF StartsWith(x, getcwd) /\ x # getcwd
                  THEN Replace(DropFirst(x, Len(getcwd)), sep, "/")
                  ELSE <<"/">>
        /\ \A i \in 1..Len(AnchorLines(BodyOf(response))) :
              StartsWith(AnchorHref(AnchorLines(BodyOf(response))[i]), <<"/">>)

----------------------------------------------------------------------------
\* The lines a listing of the directory node, reached by the path dir_path,
\* is to have for its entries: those of the visible entries, in the order
\* the filesystem enumerates them.
ExpectedLines(node, dir_path) ==
    LET RECURSIVE From(_)
        From(i) ==
            IF i > Len(FsTable) THEN <<>>
            ELSE LET e == FsTable[i]
                 IN IF e.dir # node \/ ~Visible(e.name) THEN From(i + 1)
                    ELSE IF e.isdir
                    THEN << Chars("<a href=\"")
                            \o dir_path_to_url_path(join(dir_path, e.name))
                            \o Chars("\">") \o e.name \o Chars("/</a>") >> \o From(i + 1)
                    ELSE <<e.name>> \o From(i + 1)
    IN From(1)

\* A GET has been answered with a listing.
AnsweredListing == AnsweredGet /\ Responded /\ StatusOf(response) = Chars("200")

\* The lines of the entries in the listing sent: all lines but the parent link.
SentEntryLines ==
    LET lines == EntryLines(BodyOf(response))
    IN IF Strip(request.uri, "/") = <<>> THEN lines ELSE Tail(lines)

(* C14.  In a rendered listing every visible entry appears exactly once,   *)
(* in enumeration order: a non-directory entry as its name and <br>, a     *)
(* directory entry as a hyperlink whose href is the URL (unresolve) of the *)
(* entry's full path and whose text is the name and "/", then <br>; an     *)
(* entry whose name starts with "." adds nothing.                          *)
C14_EntriesRenderedInOrder ==
    AnsweredListing =>
        /\ IsListing(BodyOf(response))
        /\ SentEntryLines = ExpectedLines(ListedNode, ResolvedPath)

\* C14's case: the listing of /www/sub (a file, then a directory) and the
\* listing of /www (with hidden entries between the visible ones).
C14_Witness ==
    /\ pc = "send"
    /\ AnsweredListing
    /\ ListedNode \in {WwwNode, SubNode}
    /\ Len(SentEntryLines) = 2
    /\ \E i \in 1..2 : IsAnchor(SentEntryLines[i])
    /\ \E i \in 1..2 : ~IsAnchor(SentEntryLines[i])

----------------------------------------------------------------------------
(* A response as a client frames it.                                       *)

\* The status line and the header lines: the lines before the first blank line.
HeadLines(resp) ==
    Split(SubSeq(resp, 1, Find(resp, CRLF \o CRLF) - 1), CRLF)

\* The header lines of a response.
HeaderLines(resp) == Tail(HeadLines(resp))

\* The three status lines.
StatusLines ==
    { Chars("HTTP/1.1 200 OK"), Chars("HTTP/1.1 404 Not Found"),
      Chars("HTTP/1.1 501 Not Implemented") }

RECURSIVE JoinLines(_)
\* Every line followed by CR LF.
JoinLines(ls) == IF ls = <<>> THEN <<>> ELSE Head(ls) \o CRLF \o JoinLines(Tail(ls))

(* C15.  Every response is exactly the status line HTTP/1.1 <code>         *)
(* <reason> CR LF, with the code one of 200, 404, 501 and the reason that  *)
(* of the code, then the header lines, one blank CR LF and the body; no    *)
(* other status code is sent.                                              *)
C15_ResponseFraming ==
    response # <<>> =>
        /\ Find(response, CRLF \o CRLF) # 0
        /\ HeadLines(response)[1] \in StatusLines
        /\ \A k \in 1..Len(HeaderLines(response)) :
              Find(HeaderLines(response)[k], Chars(": ")) > 1
        /\ response = JoinLines(HeadLines(response)) \o CRLF \o BodyOf(response)
        /\ StatusOf(response) = Chars("200") => IsListing(BodyOf(response))
        /\ StatusOf(response) = Chars("404") => BodyOf(response) = Body404
        /\ StatusOf(response) = Chars("501") => BodyOf(response) = Body501

\* C15's case: a 501 response is about to be sent.
C15_Witness ==
    /\ pc = "send"
    /\ HeadLines(response)[1] = Chars("HTTP/1.1 501 Not Implemented")
    /\ BodyOf(response) = Body501

----------------------------------------------------------------------------
(* C16.  Every response carries exactly one Server header and exactly one  *)
(* Content-Type header, in that order; an extra header with the key of a   *)
(* base header replaces its value in that response only, and the base      *)
(* header mapping stays as it is after any sequence of requests.           *)

\* The value an extra Content-Type header is given where the override is tried.
OverrideValue == Chars("text/plain")

C16_HeadersOncePerResponse ==
    /\ headers = BaseHeaders
    /\ response # <<>> =>
          /\ HeaderLines(response)
                = << Chars("Server: CrudeServer"), Chars("Content-Type: text/html") >>
          /\ response_headers(headers, << <<Chars("Content-Type"), OverrideValue>> >>)
                = Chars("Server: CrudeServer") \o CRLF
                  \o Chars("Content-Type: ") \o OverrideValue \o CRLF
          /\ response_headers(headers, <<>>)
                = Chars("Server: CrudeServer") \o CRLF
                  \o Chars("Content-Type: text/html") \o CRLF

\* C16's case: a listing, which is sent with an extra Content-Type header,
\* is the response to the second connection.
C16_Witness ==
    /\ pc = "send"
    /\ Len(accepted) = 2
    /\ StatusOf(response) = Chars("200")
    /\ Len(HeaderLines(response)) = 2

----------------------------------------------------------------------------
(* C17.  The response depends on the first line of the received bytes      *)
(* only: requests with the same first line that differ in the later lines  *)
(* get the same response, or the same exception, under the same            *)
(* filesystem.                                                             *)

\* The first line of the bytes: what comes before the first CR LF.
FirstLine(d) == Split(d, CRLF)[1]

\* handle_request has returned or raised for the connection in service.
Handled ==
    /\ conn # 0
    /\ \/ pc = "send"
       \/ pc = "terminated" /\ fault \notin TransportFaults

C17_OnlyFirstLineMatters ==
    Handled =>
        \A d2 \in Requests :
            FirstLine(d2) = FirstLine(data) =>
                LET r == handle_request(headers, d2)
                IN /\ r.exc = fault
                   /\ fault = "None" => r.val = response

\* C17's case: a listing is the response to a request with header lines,
\* and a request with the same first line and other later lines exists.
C17_Witness ==
    /\ pc = "send"
    /\ Len(Split(data, CRLF)) > 1
    /\ StatusOf(response) = Chars("200")
    /\ \E d2 \in Requests : d2 # data /\ FirstLine(d2) = FirstLine(data)

----------------------------------------------------------------------------
(* C18.  No state persists across connections: the response to a request   *)
(* is the same whatever earlier connections and requests, of any method    *)
(* and outcome, the server has serviced.  A response sent is the one a     *)
(* server that has serviced nothing gives to the same bytes, and a         *)
(* connection that waits is still going to be served whatever the          *)
(* requests the earlier connections sent.                                  *)
C18_NoStateAcrossConnections ==
    /\ pc = "send" =>
          LET r == handle_request(BaseHeaders, data)
          IN r.exc = "None" /\ r.val = response
    /\ (pending # <<>> /\ accepted # <<>> /\ fault \notin TransportFaults)
          => pc # "terminated"

====
